---- MODULE Spec2Model ----
(***************************************************************************)
(* utility_programming: the Utility / Generator / Modifier aggregates of   *)
(* src/lib.rs, the ModifyOptimizer search engine, and the number example   *)
(* (examples/number.rs) that drives it over a u8 object.                   *)
(*                                                                         *)
(* Scores are f64 in the source.  Every score of the number example is a   *)
(* small integer (|obj - 42| * -1.0 plus 0.0 or 5.0), exactly              *)
(* representable, so scores are modelled as integers.  rand::random is a   *)
(* nondeterministic choice.                                                *)
(***************************************************************************)
EXTENDS Integers, Sequences, FiniteSets

VARIABLES
    generators,   \* the Vec<NumberGenerator> main generates the number from
    modifier,     \* the Vec<NumberModifier> at the bottom of the optimizer chain
    optimizers,   \* the ModifyOptimizer chain: optimizers[1].modifier is `modifier`,
                  \* optimizers[L].modifier is optimizers[L-1]
    num,          \* the object (main's `num`, `obj` inside the library)
    old,          \* main's `old`
    mainpc,       \* where the caller is
    frames,       \* the activations of ModifyOptimizer::modify, outermost first
    change,       \* the Change last returned to the caller
    hist          \* history: what the caller's last call did (the member calls a
                  \* Vec<U> modifier made, the objects an optimizer call scored)

vars == <<generators, modifier, optimizers, num, old, mainpc, frames, change, hist>>

----------------------------------------------------------------------------
(* Bounds of the model *)

\* largest `tries` of an optimizer
MaxTries == 2
\* largest `depth` of an optimizer
MaxDepth == 2
\* rand::random::<usize>() draws from 0..RandMax
RandMax == 3
\* `tries` of the inner optimizer when an optimizer is the modifier of another
InnerTries == 1

(* Program constants *)

U8Max == 255
TargetValue == 42
FixedStart == 100

----------------------------------------------------------------------------
(* examples/number.rs *)

Abs(x) == IF x < 0 THEN -x ELSE x

Max(a, b) == IF a < b THEN b ELSE a

\* faulty variant: the oldest record instead of the newest
Oldest(s) == s[1]

Last(s) == s[Len(s)]

Front(s) == SubSeq(s, 1, Len(s) - 1)

\* for i in 2..*obj { if (*obj % i) == 0 {return 0.0} }
IsPrime(n) == n >= 2 /\ \A i \in 2..(n - 1) : n % i # 0

\* impl Utility<u8> for NumberUtility
NumberUtility(self, obj) ==
    IF self.kind = "Target"
    THEN Abs(obj - self.value) * self.penalty
    ELSE IF IsPrime(obj) THEN self.reward ELSE 0

\* impl Utility<T> for Vec<U>: the sum over the members, 0 when there is none
RECURSIVE SumUtility(_, _, _)
SumUtility(self, n, obj) ==
    IF n = 0 THEN 0
    ELSE SumUtility(self, n - 1, obj) + NumberUtility(self[n], obj)

\* faulty variant: only the first member is scored
VecUtilityFirst(self, obj) ==
    IF Len(self) = 0 THEN 0 ELSE NumberUtility(self[1], obj)

VecUtility(self, obj) == SumUtility(self, Len(self), obj)

\* NumberGenerator::generate: the values it may return
NumberGenerate(self) ==
    IF self.kind = "Random" THEN 0..U8Max ELSE {self.val}

NumberChange(o, n) == [old |-> o, new |-> n]

\* faulty variant: Inc and Dec without the range tests
NumberModifyUnclamped(self, obj) ==
    LET new == IF self = "Inc" THEN obj + 1 ELSE obj - 1
    IN  [obj |-> new, change |-> NumberChange(obj, new)]

\* NumberModifier::modify: the new object and the change
NumberModify(self, obj) ==
    LET new == IF self = "Inc"
               THEN (IF obj < U8Max THEN obj + 1 ELSE obj)
               ELSE (IF obj > 0 THEN obj - 1 ELSE obj)
    IN  [obj |-> new, change |-> NumberChange(obj, new)]

\* faulty variant: undo leaves the object as it is
NumberUndoKeeps(self, ch, obj) == obj

\* NumberModifier::undo
NumberUndo(self, ch, obj) == ch.old

\* NumberModifier::redo
NumberRedo(self, ch, obj) == ch.new

----------------------------------------------------------------------------
(* src/lib.rs: the Vec aggregates *)

\* usize % usize: the value of r % len; there is none when len is 0, the
\* remainder panics
Remainder(r, len) == IF len = 0 THEN {} ELSE {r % len}

\* rand::random::<usize>() % self.len(): the values the expression may have
RandomIndex(len) == UNION {Remainder(r, len) : r \in 0..RandMax}

\* faulty variant: the change always names the first member
StoredFirst(index) == 0

\* the index Vec::modify stores in the change
StoredIndex(index) == index

\* Vec::modify with the member `index` drawn: (index, self[index].modify(obj))
VecModify(self, index, obj) ==
    LET r == NumberModify(self[index + 1], obj)
    IN  [obj |-> r.obj, change |-> <<StoredIndex(index), r.change>>, callee |-> index]

\* the member Vec::undo and Vec::redo dispatch to: self[change.0]
Route(ch) == ch[1]

\* Vec::undo
VecUndo(self, ch, obj) ==
    [obj |-> NumberUndo(self[Route(ch) + 1], ch[2], obj), callee |-> Route(ch)]

\* Vec::redo
VecRedo(self, ch, obj) ==
    [obj |-> NumberRedo(self[Route(ch) + 1], ch[2], obj), callee |-> Route(ch)]

----------------------------------------------------------------------------
(* src/lib.rs: ModifyOptimizer *)

RECURSIVE OptimizerUndo(_, _, _)
RECURSIVE OptimizerRedo(_, _, _)
RECURSIVE UndoFrom(_, _, _, _)
RECURSIVE RedoFrom(_, _, _, _)
RECURSIVE UndoUp(_, _, _, _)
RECURSIVE RedoDown(_, _, _, _)

\* self.modifier.undo for the optimizer of level L: the Vec when L = 1, the
\* optimizer of level L - 1 otherwise
ModifierUndo(L, ch, obj) ==
    IF L = 1 THEN VecUndo(modifier, ch, obj).obj
    ELSE OptimizerUndo(L - 1, ch, obj)

\* self.modifier.redo for the optimizer of level L
ModifierRedo(L, ch, obj) ==
    IF L = 1 THEN VecRedo(modifier, ch, obj).obj
    ELSE OptimizerRedo(L - 1, ch, obj)

\* for i in (0..change.len()).rev() { self.modifier.undo(&change[i], obj) }
UndoFrom(L, ch, i, obj) ==
    IF i = 0 THEN obj
    ELSE UndoFrom(L, ch, i - 1, ModifierUndo(L, ch[i], obj))

\* for i in 0..change.len() { self.modifier.redo(&change[i], obj) }
RedoFrom(L, ch, i, obj) ==
    IF i > Len(ch) THEN obj
    ELSE RedoFrom(L, ch, i + 1, ModifierRedo(L, ch[i], obj))

\* faulty variant: the undo loop without .rev()
UndoUp(L, ch, i, obj) ==
    IF i > Len(ch) THEN obj
    ELSE UndoUp(L, ch, i + 1, ModifierUndo(L, ch[i], obj))

UndoForward(L, ch, obj) == UndoUp(L, ch, 1, obj)

\* ModifyOptimizer::undo of the optimizer of level L
OptimizerUndo(L, ch, obj) == UndoFrom(L, ch, Len(ch), obj)

\* faulty variant: the redo loop with .rev()
RedoDown(L, ch, i, obj) ==
    IF i = 0 THEN obj
    ELSE RedoDown(L, ch, i - 1, ModifierRedo(L, ch[i], obj))

RedoBackward(L, ch, obj) == RedoDown(L, ch, Len(ch), obj)

\* ModifyOptimizer::redo of the optimizer of level L
OptimizerRedo(L, ch, obj) == RedoFrom(L, ch, 1, obj)

RECURSIVE UndoCallsFrom(_, _, _, _)
RECURSIVE RedoCallsFrom(_, _, _, _)

\* the calls self.modifier.undo(&change[i], obj) of ModifyOptimizer::undo in the
\* order they are made, each with the object it is given
UndoCallsFrom(L, ch, i, obj) ==
    IF i = 0 THEN <<>>
    ELSE <<[action |-> ch[i], obj |-> obj]>>
             \o UndoCallsFrom(L, ch, i - 1, ModifierUndo(L, ch[i], obj))

UndoCalls(L, ch, obj) == UndoCallsFrom(L, ch, Len(ch), obj)

\* the calls self.modifier.redo(&change[i], obj) of ModifyOptimizer::redo
RedoCallsFrom(L, ch, i, obj) ==
    IF i > Len(ch) THEN <<>>
    ELSE <<[action |-> ch[i], obj |-> obj]>>
             \o RedoCallsFrom(L, ch, i + 1, ModifierRedo(L, ch[i], obj))

RedoCalls(L, ch, obj) == RedoCallsFrom(L, ch, 1, obj)

\* faulty variant: the comparison the wrong way round
BetterFlipped(best_utility, utility) == best_utility > utility

\* faulty variant: a tie replaces the incumbent
BetterOrEqual(best_utility, utility) == best_utility <= utility

\* if best_utility < utility
Better(best_utility, utility) == best_utility < utility

\* faulty variant: the snapshot is taken before the push
CloneStale(stack) == Front(stack)

\* best = stack.clone()
Clone(stack) == stack

\* faulty variant: the unwinding drops the whole stack after one undo
PopAll(stack) == <<>>

\* while let Some(ref action) = stack.pop(): the stack after the pop
Pop(stack) == Front(stack)

\* faulty variant: best_utility starts at 0.0 instead of the object's own score
NewFrameZeroFloor(L, obj) ==
    LET self == optimizers[L]
        utility == VecUtility(self.utility, obj)
    IN  [lvl |-> L, best |-> <<>>, best_utility |-> 0, stack |-> <<>>,
         i |-> 0, j |-> 0, k |-> 0,
         pc |-> IF self.tries = 0 \/ self.depth = 0 THEN "replay" ELSE "trial",
         obj0 |-> obj, peak |-> utility, seen |-> {obj}, first |-> <<>>,
         nmodify |-> 0, nundo |-> 0, nredo |-> 0]

\* faulty variant: the tries loop runs its body before it tests the count
NewFrameTriesUntested(L, obj) ==
    LET self == optimizers[L]
        utility == VecUtility(self.utility, obj)
    IN  [lvl |-> L, best |-> <<>>, best_utility |-> utility, stack |-> <<>>,
         i |-> 0, j |-> 0, k |-> 0,
         pc |-> IF self.depth = 0 THEN "replay" ELSE "trial",
         obj0 |-> obj, peak |-> utility, seen |-> {obj}, first |-> <<>>,
         nmodify |-> 0, nundo |-> 0, nredo |-> 0]

\* the first lines of ModifyOptimizer::modify: best, best_utility, stack.
\* The loops run no trial edit when tries or depth is 0.
\* History, not program state: obj0 is the object the call began with, seen the
\* objects the call has scored, peak the highest score among them, first the
\* trial stack as it was when the score first rose to peak; nmodify, nundo and
\* nredo count the calls of self.modifier.modify, .undo and .redo.
NewFrame(L, obj) ==
    LET self == optimizers[L]
        utility == VecUtility(self.utility, obj)
    IN  [lvl |-> L, best |-> <<>>, best_utility |-> utility, stack |-> <<>>,
         i |-> 0, j |-> 0, k |-> 0,
         pc |-> IF self.tries = 0 \/ self.depth = 0 THEN "replay" ELSE "trial",
         obj0 |-> obj, peak |-> utility, seen |-> {obj}, first |-> <<>>,
         nmodify |-> 0, nundo |-> 0, nredo |-> 0]

\* one round of the depth loop once self.modifier.modify(obj) has returned ch:
\* push, score, keep the best
AfterTrial(f, ch, obj) ==
    LET self == optimizers[f.lvl]
        stack == Append(f.stack, ch)
        utility == VecUtility(self.utility, obj)
        better == Better(f.best_utility, utility)
    IN  [f EXCEPT !.stack = stack,
                  !.best = IF better THEN Clone(stack) ELSE @,
                  !.best_utility = IF better THEN utility ELSE @,
                  !.j = @ + 1,
                  !.pc = IF f.j + 1 = self.depth THEN "unwind" ELSE "trial",
                  !.peak = Max(@, utility),
                  !.seen = @ \cup {obj},
                  !.first = IF utility > f.peak THEN Append(f.stack, ch) ELSE @,
                  !.nmodify = @ + 1]

\* faulty variant: best shares the storage of the stack, so a pop shortens it
AfterUndoAliased(f) ==
    LET self == optimizers[f.lvl]
        stack == Pop(f.stack)
        done == stack = <<>>
    IN  [f EXCEPT !.stack = stack,
                  !.best = IF Len(@) > Len(stack) THEN stack ELSE @,
                  !.i = IF done THEN @ + 1 ELSE @,
                  !.j = IF done THEN 0 ELSE @,
                  !.pc = IF ~done THEN "unwind"
                         ELSE IF f.i + 1 = self.tries THEN "replay" ELSE "trial",
                  !.nundo = @ + 1]

\* faulty variant: the unwinding stops with one record left on the stack
AfterUndoLeavesOne(f) ==
    LET self == optimizers[f.lvl]
        stack == Pop(f.stack)
        done == Len(stack) <= 1
    IN  [f EXCEPT !.stack = stack,
                  !.i = IF done THEN @ + 1 ELSE @,
                  !.j = IF done THEN 0 ELSE @,
                  !.pc = IF ~done THEN "unwind"
                         ELSE IF f.i + 1 = self.tries THEN "replay" ELSE "trial",
                  !.nundo = @ + 1]

\* one round of the unwinding loop; the tries loop goes on when the stack is empty
AfterUndo(f) ==
    LET self == optimizers[f.lvl]
        stack == Pop(f.stack)
        done == stack = <<>>
    IN  [f EXCEPT !.stack = stack,
                  !.i = IF done THEN @ + 1 ELSE @,
                  !.j = IF done THEN 0 ELSE @,
                  !.pc = IF ~done THEN "unwind"
                         ELSE IF f.i + 1 = self.tries THEN "replay" ELSE "trial",
                  !.nundo = @ + 1]

\* one round of the final loop over best
AfterRedo(f) == [f EXCEPT !.k = @ + 1, !.nredo = @ + 1]

Top == frames[Len(frames)]

SetTop(f) == [frames EXCEPT ![Len(frames)] = f]

Running == mainpc = "modify" /\ frames # <<>>

----------------------------------------------------------------------------
(* The configurations *)

MainGenerators ==
    <<[kind |-> "Random"], [kind |-> "Fixed", val |-> FixedStart],
      [kind |-> "Fixed", val |-> 0]>>

MainUtility ==
    <<[kind |-> "Target", value |-> TargetValue, penalty |-> -1],
      [kind |-> "Prime", reward |-> 5]>>

MainModifier == <<"Inc", "Dec">>

TargetUtility == <<[kind |-> "Target", value |-> TargetValue, penalty |-> -1]>>

PrimeUtility == <<[kind |-> "Prime", reward |-> 5]>>

\* the Vecs of NumberUtility scored directly
Utilities ==
    {<<>>, TargetUtility, PrimeUtility, MainUtility, PrimeUtility \o MainUtility}

Optimizer(u, t, d) == [utility |-> u, tries |-> t, depth |-> d]

Modifiers == {<<>>, <<"Inc">>, <<"Dec">>, MainModifier}

Init ==
    /\ generators \in {MainGenerators, <<>>}
    /\ modifier \in Modifiers
    /\ \E t \in 0..MaxTries, d \in 0..MaxDepth :
           optimizers = <<Optimizer(MainUtility, t, d)>>
    /\ num = 0
    /\ old = 0
    /\ mainpc = "start"
    /\ frames = <<>>
    /\ change = <<>>
    /\ hist = <<>>

----------------------------------------------------------------------------
(* main *)

\* let mut num = vec![...].generate();
Generate ==
    /\ mainpc = "start"
    /\ IF RandomIndex(Len(generators)) = {}
       THEN /\ mainpc' = "panicked"
            /\ UNCHANGED num
       ELSE /\ \E index \in RandomIndex(Len(generators)) :
                   num' \in NumberGenerate(generators[index + 1])
            /\ mainpc' = "loop"
    /\ UNCHANGED <<generators, modifier, optimizers, old, frames, change, hist>>

\* let old = num; optimizer.modify(&mut num);
MainCall ==
    /\ mainpc = "loop"
    /\ old' = num
    /\ frames' = <<NewFrame(Len(optimizers), num)>>
    /\ mainpc' = "modify"
    /\ hist' = <<>>
    /\ UNCHANGED <<generators, modifier, optimizers, num, change>>

\* if num == old {break}
MainCheck ==
    /\ mainpc = "check"
    /\ mainpc' = IF num = old THEN "done" ELSE "loop"
    /\ change' = <<>>
    /\ UNCHANGED <<generators, modifier, optimizers, num, old, frames, hist>>

----------------------------------------------------------------------------
(* ModifyOptimizer::modify, step by step *)

\* faulty variant: the optimizer gives the search up when its modifier cannot edit
TrialVecCatches ==
    /\ Running
    /\ Top.pc = "trial"
    /\ Top.lvl = 1
    /\ IF RandomIndex(Len(modifier)) = {}
       THEN /\ frames' = SetTop([Top EXCEPT !.pc = "replay"])
            /\ UNCHANGED <<num, mainpc>>
       ELSE /\ \E index \in RandomIndex(Len(modifier)) :
                   LET r == VecModify(modifier, index, num)
                   IN  /\ num' = r.obj
                       /\ frames' = SetTop(AfterTrial(Top, r.change, r.obj))
            /\ UNCHANGED mainpc
    /\ UNCHANGED <<generators, modifier, optimizers, old, change, hist>>

\* stack.push(self.modifier.modify(obj)); let utility = ...; if best_utility <
\* utility {...}: one round of the depth loop with a Vec as the modifier.
\* Vec::modify panics on an empty Vec and nothing catches the panic.
TrialVec ==
    /\ Running
    /\ Top.pc = "trial"
    /\ Top.lvl = 1
    /\ IF RandomIndex(Len(modifier)) = {}
       THEN /\ mainpc' = "panicked"
            /\ UNCHANGED <<num, frames>>
       ELSE /\ \E index \in RandomIndex(Len(modifier)) :
                   LET r == VecModify(modifier, index, num)
                   IN  /\ num' = r.obj
                       /\ frames' = SetTop(AfterTrial(Top, r.change, r.obj))
            /\ UNCHANGED mainpc
    /\ UNCHANGED <<generators, modifier, optimizers, old, change, hist>>

\* self.modifier.modify(obj) with an optimizer as the modifier: the call
TrialCall ==
    /\ Running
    /\ Top.pc = "trial"
    /\ Top.lvl > 1
    /\ frames' = Append(SetTop([Top EXCEPT !.pc = "call"]), NewFrame(Top.lvl - 1, num))
    /\ UNCHANGED <<generators, modifier, optimizers, num, old, mainpc, change, hist>>

\* while let Some(ref action) = stack.pop() { self.modifier.undo(action, obj) }
Undo ==
    /\ Running
    /\ Top.pc = "unwind"
    /\ num' = ModifierUndo(Top.lvl, Last(Top.stack), num)
    /\ frames' = SetTop(AfterUndo(Top))
    /\ UNCHANGED <<generators, modifier, optimizers, old, mainpc, change, hist>>

\* for i in 0..best.len() { self.modifier.redo(&best[i], obj) }
Redo ==
    /\ Running
    /\ Top.pc = "replay"
    /\ Top.k < Len(Top.best)
    /\ num' = ModifierRedo(Top.lvl, Top.best[Top.k + 1], num)
    /\ frames' = SetTop(AfterRedo(Top))
    /\ UNCHANGED <<generators, modifier, optimizers, old, mainpc, change, hist>>

Returning(f) == f.pc = "replay" /\ f.k = Len(f.best)

\* `best` is returned to main
Return ==
    /\ Running
    /\ Len(frames) = 1
    /\ Returning(Top)
    /\ change' = Top.best
    /\ frames' = <<>>
    /\ mainpc' = "check"
    /\ hist' = <<[op |-> "optimize", before |-> Top.obj0, after |-> num,
                  seen |-> Top.seen]>>
    /\ UNCHANGED <<generators, modifier, optimizers, num, old>>

\* `best` is returned to the enclosing optimizer, which pushes and scores it
ReturnInner ==
    /\ Running
    /\ Len(frames) > 1
    /\ Returning(Top)
    /\ frames' = [Front(frames) EXCEPT
                      ![Len(frames) - 1] = AfterTrial(@, Top.best, num)]
    /\ UNCHANGED <<generators, modifier, optimizers, num, old, mainpc, change, hist>>

----------------------------------------------------------------------------
(* The Vec<NumberModifier> used directly as a Modifier<u8> *)

VecModifyStep ==
    /\ mainpc = "loop"
    /\ IF RandomIndex(Len(modifier)) = {}
       THEN /\ mainpc' = "panicked"
            /\ UNCHANGED <<num, old, change, hist>>
       ELSE /\ \E index \in RandomIndex(Len(modifier)) :
                   LET r == VecModify(modifier, index, num)
                   IN  /\ num' = r.obj
                       /\ change' = <<r.change>>
                       /\ hist' = <<[op |-> "modify", callee |-> r.callee,
                                     before |-> num, after |-> r.obj]>>
            /\ old' = num
            /\ mainpc' = "vec_modified"
    /\ UNCHANGED <<generators, modifier, optimizers, frames>>

VecUndoStep ==
    /\ mainpc = "vec_modified"
    /\ LET r == VecUndo(modifier, change[1], num)
       IN  /\ num' = r.obj
           /\ hist' = Append(hist, [op |-> "undo", callee |-> r.callee,
                                    before |-> num, after |-> r.obj])
    /\ mainpc' = "vec_undone"
    /\ UNCHANGED <<generators, modifier, optimizers, old, frames, change>>

VecRedoStep ==
    /\ mainpc = "vec_undone"
    /\ LET r == VecRedo(modifier, change[1], num)
       IN  /\ num' = r.obj
           /\ hist' = Append(hist, [op |-> "redo", callee |-> r.callee,
                                    before |-> num, after |-> r.obj])
    /\ mainpc' = "vec_redone"
    /\ UNCHANGED <<generators, modifier, optimizers, old, frames, change>>

----------------------------------------------------------------------------
(* A Vec<NumberUtility> used directly as a Utility<u8>, as main does when it
   prints the score *)

VecUtilityStep ==
    /\ mainpc = "loop"
    /\ \E self \in Utilities :
           hist' = <<[op |-> "utility", self |-> self, before |-> num,
                      after |-> num, value |-> VecUtility(self, num)]>>
    /\ mainpc' = "scored"
    /\ UNCHANGED <<generators, modifier, optimizers, num, old, frames, change>>

----------------------------------------------------------------------------

Next ==
    \/ Generate
    \/ MainCall
    \/ MainCheck
    \/ TrialVec
    \/ Undo
    \/ Redo
    \/ Return
    \/ VecModifyStep
    \/ VecUndoStep
    \/ VecRedoStep
    \/ VecUtilityStep

Spec == Init /\ [][Next]_vars

----------------------------------------------------------------------------
(* main alone.  The program is sequential and never waits: it takes its next
   step whenever it has one. *)

NextMain ==
    \/ Generate
    \/ MainCall
    \/ MainCheck
    \/ TrialVec
    \/ Undo
    \/ Redo
    \/ Return

\* main as written, with tries and depth within the bounds
InitMain ==
    /\ generators = MainGenerators
    /\ modifier = MainModifier
    /\ optimizers = <<Optimizer(MainUtility, MaxTries, MaxDepth)>>
    /\ num = 0
    /\ old = 0
    /\ mainpc = "start"
    /\ frames = <<>>
    /\ change = <<>>
    /\ hist = <<>>

SpecMain == InitMain /\ [][NextMain]_vars /\ WF_vars(NextMain)

(* The number scenario: main started at 0 with its own modifiers and utility *)

InitNumber ==
    /\ generators = <<[kind |-> "Fixed", val |-> 0]>>
    /\ modifier = MainModifier
    /\ optimizers = <<Optimizer(MainUtility, MaxTries, MaxDepth)>>
    /\ num = 0
    /\ old = 0
    /\ mainpc = "start"
    /\ frames = <<>>
    /\ change = <<>>
    /\ hist = <<>>

SpecNumber == InitNumber /\ [][NextMain]_vars /\ WF_vars(NextMain)

----------------------------------------------------------------------------
(* An optimizer whose modifier is another optimizer, called once *)

NestedGenerators ==
    <<[kind |-> "Fixed", val |-> 0], [kind |-> "Fixed", val |-> TargetValue - 2],
      [kind |-> "Fixed", val |-> U8Max]>>

InitNested ==
    /\ generators = NestedGenerators
    /\ modifier = MainModifier
    /\ \E u \in {<<MainUtility, TargetUtility>>, <<PrimeUtility, MainUtility>>} :
           optimizers = <<Optimizer(u[1], InnerTries, MaxDepth),
                          Optimizer(u[2], MaxTries, MaxDepth)>>
    /\ num = 0
    /\ old = 0
    /\ mainpc = "start"
    /\ frames = <<>>
    /\ change = <<>>
    /\ hist = <<>>

NextNested ==
    \/ Generate
    \/ MainCall
    \/ TrialVec
    \/ TrialCall
    \/ ReturnInner
    \/ Undo
    \/ Redo
    \/ Return

SpecNested == InitNested /\ [][NextNested]_vars

----------------------------------------------------------------------------
(* Calls of ModifyOptimizer::modify under every budget, from the two ends and
   the middle of the u8 range, with every edit aggregate *)

InitCalls ==
    /\ generators = NestedGenerators
    /\ modifier \in Modifiers
    /\ \E t \in 0..MaxTries, d \in 0..MaxDepth :
           optimizers = <<Optimizer(MainUtility, t, d)>>
    /\ num = 0
    /\ old = 0
    /\ mainpc = "start"
    /\ frames = <<>>
    /\ change = <<>>
    /\ hist = <<>>

SpecCalls == InitCalls /\ [][NextMain]_vars /\ WF_vars(NextMain)

----------------------------------------------------------------------------
(* The claims *)

\* the score the optimizer of level L gives an object
Score(L, obj) == VecUtility(optimizers[L].utility, obj)

TopLevel == Len(optimizers)

\* C1: when ModifyOptimizer::modify returns, the object's score is greater than
\* or equal to the score the object had when the call began, whatever the
\* tries, the depth and the members the edit aggregate drew.
C1_NonRegression ==
    /\ \A p \in 1..Len(frames) :
           Returning(frames[p]) =>
               Score(frames[p].lvl, num) >= Score(frames[p].lvl, frames[p].obj0)
    /\ mainpc = "check" => Score(TopLevel, num) >= Score(TopLevel, old)

\* a call returns a changed object after two attempts
C1_Witness ==
    /\ mainpc = "check"
    /\ num # old
    /\ change # <<>>
    /\ optimizers[1].tries >= 2

\* C2: when ModifyOptimizer::modify returns, the object is the original input
\* with the returned sequence redone on it, and its score is the maximum of the
\* initial score and of every score observed after a trial edit of the call.
C2_FinalIsBestObserved ==
    /\ \A p \in 1..Len(frames) :
           LET f == frames[p]
           IN  Returning(f) =>
                   /\ num = OptimizerRedo(f.lvl, f.best, f.obj0)
                   /\ Score(f.lvl, num) = f.peak
                   /\ \A o \in f.seen : Score(f.lvl, o) <= Score(f.lvl, num)
    /\ mainpc = "check" => num = OptimizerRedo(TopLevel, change, old)

\* a call is about to return a sequence of two edits, having scored an object
\* worse than the one it began with
C2_Witness ==
    /\ Running
    /\ Returning(Top)
    /\ Len(Top.best) = 2
    /\ \E o \in Top.seen : Score(Top.lvl, o) < Score(Top.lvl, Top.obj0)

\* C3: if ModifyOptimizer::modify turns o0 into o1 and returns r, then
\* ModifyOptimizer::undo(r) on o1 yields o0 and ModifyOptimizer::redo(r) on that
\* o0 yields o1 again, the empty record included.
C3_SequenceInverse ==
    mainpc = "check" =>
        /\ OptimizerUndo(TopLevel, change, num) = old
        /\ OptimizerRedo(TopLevel, change, OptimizerUndo(TopLevel, change, num)) = num

\* a record of two edits has been returned
C3_Witness ==
    /\ mainpc = "check"
    /\ Len(change) = 2
    /\ num # old

\* the empty record has been returned by a call that made trial edits
C3_WitnessEmpty ==
    /\ mainpc = "check"
    /\ change = <<>>
    /\ Cardinality(hist[1].seen) > 1

\* C4: after the unwinding step of every attempt the object is exactly the
\* original input, so every attempt starts from the same baseline.
C4_AttemptRestored ==
    Running =>
        /\ (Top.pc = "trial" /\ Top.j = 0) =>
               (Top.stack = <<>> /\ num = Top.obj0)
        /\ (Top.pc = "replay" /\ Top.k = 0) =>
               (Top.stack = <<>> /\ num = Top.obj0)

\* a second attempt starts after a first one that found a better object
C4_Witness ==
    /\ Running
    /\ Top.pc = "trial"
    /\ Top.i >= 1
    /\ Top.j = 0
    /\ Len(Top.best) = 2

\* C5: if Vec::modify turns o into o' and returns r, Vec::undo(r) on o' yields
\* exactly o and a following Vec::redo(r) yields exactly o', for every u8 value
\* and every member, the clamped Inc at 255 and Dec at 0 included.
C5_InverseLaw ==
    /\ mainpc = "vec_undone" => num = hist[1].before
    /\ mainpc = "vec_redone" => num = hist[1].after

\* an edit that changed the object has been undone and redone
C5_Witness ==
    /\ mainpc = "vec_redone"
    /\ hist[1].before # hist[1].after
    /\ num = hist[1].after

\* the clamped Inc at 255 has been undone and redone
C5_WitnessClamped ==
    /\ mainpc = "vec_redone"
    /\ hist[1].before = U8Max
    /\ modifier[hist[1].callee + 1] = "Inc"

\* the records of an optimizer whose modifier is the Vec
VecRecords == IF Running /\ Top.lvl = 1
              THEN {Top.stack[n] : n \in 1..Len(Top.stack)}
                   \cup {Top.best[n] : n \in 1..Len(Top.best)}
              ELSE {}

\* C6: the index in every change record of Vec::modify is the index of the
\* member that performed the edit and lies in 0..len-1; Vec::undo and Vec::redo
\* invoke that member only; a single-member aggregate always stores index 0.
C6_ExactRouting ==
    /\ mainpc \in {"vec_modified", "vec_undone", "vec_redone"} =>
           /\ change[1][1] \in 0..(Len(modifier) - 1)
           /\ \A n \in 1..Len(hist) : hist[n].callee = change[1][1]
           /\ NumberModify(modifier[change[1][1] + 1], hist[1].before).obj = hist[1].after
           /\ Len(modifier) = 1 => change[1][1] = 0
    /\ \A r \in VecRecords :
           /\ r[1] \in 0..(Len(modifier) - 1)
           /\ NumberModify(modifier[r[1] + 1], r[2].old).change = r[2]
           /\ Len(modifier) = 1 => r[1] = 0

\* the second of two members made an edit that was undone and redone
C6_Witness ==
    /\ mainpc = "vec_redone"
    /\ Len(hist) = 3
    /\ hist[1].callee = 1
    /\ hist[1].before # hist[1].after

\* C7: calling ModifyOptimizer::modify again and again on the same object with
\* fixed tries and depth reaches, after finitely many calls, a call that leaves
\* the object as it was, for every sequence of member choices.
C7_FixedPointTermination == <>(mainpc = "done")

\* the loop has stopped at 41 with the example's modifiers
C7_Witness ==
    /\ mainpc = "done"
    /\ modifier = MainModifier
    /\ optimizers[1].tries = MaxTries
    /\ optimizers[1].depth = MaxDepth
    /\ num = TargetValue - 1

\* the objects one Inc or Dec away
Neighbours(v) == {NumberModify(m, v).obj : m \in {"Inc", "Dec"}}

\* C8 as stated: the value v at which the repeated-call loop stops has no
\* neighbour v+1 or v-1 with a strictly higher score.
C8_StopIsLocalOptimum ==
    mainpc = "done" =>
        \A w \in Neighbours(num) : Score(1, w) <= Score(1, num)

\* C8 as amended: the value v at which the repeated-call loop stops has no
\* strictly higher-scoring object among those the trial edits of the last call
\* produced; v+1 or v-1 scores no higher than v when the last call visited it.
C8_StopIsBestVisited ==
    mainpc = "done" =>
        /\ \A w \in hist[1].seen : Score(1, w) <= Score(1, num)
        /\ \A w \in Neighbours(num) \cap hist[1].seen : Score(1, w) <= Score(1, num)

\* the loop has stopped at a value whose two neighbours the last call visited
C8_Witness ==
    /\ mainpc = "done"
    /\ num > 0
    /\ Neighbours(num) \subseteq hist[1].seen

\* C9: Vec::generate and Vec::modify on an empty collection abort instead of
\* returning; ModifyOptimizer::modify with an empty modifier collection, tries
\* >= 1 and depth >= 1 aborts at its first trial edit, is not caught, and has
\* not changed the object.
C9_EmptyIsFatal ==
    /\ generators = <<>> => mainpc \in {"start", "panicked"}
    /\ modifier = <<>> =>
           /\ mainpc \notin {"vec_modified", "vec_undone", "vec_redone"}
           /\ (optimizers[1].tries >= 1 /\ optimizers[1].depth >= 1) =>
                  mainpc \notin {"check", "done"}
    /\ (mainpc = "panicked" /\ frames # <<>>) =>
           /\ modifier = <<>>
           /\ Top.stack = <<>> /\ Top.best = <<>>
           /\ Top.i = 0 /\ Top.j = 0
           /\ num = Top.obj0
           /\ num = old

\* the optimizer has aborted at its first trial edit
C9_Witness ==
    /\ mainpc = "panicked"
    /\ frames # <<>>
    /\ modifier = <<>>

\* C10: with a ModifyOptimizer as the modifier of an outer ModifyOptimizer, each
\* outer attempt is unwound to exactly the original object and the outer call
\* returns an object whose outer score is >= the outer score of the input.
C10_NestedComposition ==
    /\ \A p \in 1..Len(frames) :
           LET f == frames[p]
           IN  f.lvl = 2 =>
                   /\ (f.pc = "trial" /\ f.j = 0) => (f.stack = <<>> /\ num = f.obj0)
                   /\ (f.pc = "replay" /\ f.k = 0) => (f.stack = <<>> /\ num = f.obj0)
                   /\ Returning(f) => Score(2, num) >= Score(2, f.obj0)
    /\ mainpc = "check" => Score(TopLevel, num) >= Score(TopLevel, old)

\* the outer optimizer starts its second attempt after a first one in which two
\* inner searches each returned edits
C10_Witness ==
    /\ Running
    /\ Len(frames) = 1
    /\ Top.lvl = 2
    /\ Top.pc = "trial"
    /\ Top.i >= 1
    /\ Top.j = 0
    /\ Len(Top.best) = 2
    /\ Len(Top.best[1]) = 2
    /\ Len(Top.best[2]) >= 1

\* the members' scores written out and added, for up to three members
MemberSum(self, obj) ==
    CASE Len(self) = 0 -> 0
      [] Len(self) = 1 -> NumberUtility(self[1], obj)
      [] Len(self) = 2 -> NumberUtility(self[1], obj) + NumberUtility(self[2], obj)
      [] Len(self) = 3 -> NumberUtility(self[1], obj) + NumberUtility(self[2], obj)
                          + NumberUtility(self[3], obj)

\* C11: Vec::utility(o) is the sum of member.utility(o) over the members, for
\* [s1, s2] exactly s1(o) + s2(o); an empty collection yields 0; scoring leaves
\* the object unchanged.
C11_UtilityIsSum ==
    mainpc = "scored" =>
        /\ hist[1].value = MemberSum(hist[1].self, hist[1].before)
        /\ hist[1].self = <<>> => hist[1].value = 0
        /\ num = hist[1].before

\* the two scorers of main have scored the prime 43: -1 + 5
C11_Witness ==
    /\ mainpc = "scored"
    /\ hist[1].self = MainUtility
    /\ num = TargetValue + 1
    /\ hist[1].value = 4

\* the empty collection has scored an object
C11_WitnessEmpty ==
    /\ mainpc = "scored"
    /\ hist[1].self = <<>>
    /\ num = U8Max

\* the activations of ModifyOptimizer::modify that a step neither begins nor ends
Continuing == 1..(IF Len(frames) < Len(frames') THEN Len(frames) ELSE Len(frames'))

\* C12: best and best_utility are replaced only when a trial edit scores
\* strictly more than best_utility, never on a tie; so the record a call
\* returns is the snapshot of the trial stack taken when the highest score of
\* the call was first reached.
C12_TiesKeepIncumbent ==
    /\ [][\A p \in Continuing :
              LET f == frames[p]
                  g == frames'[p]
              IN  (g.best # f.best \/ g.best_utility # f.best_utility) =>
                      /\ g.best_utility > f.best_utility
                      /\ g.best_utility = Score(g.lvl, num')
                      /\ g.best = Append(f.stack, g.stack[Len(g.stack)])]_vars
    /\ [](\A p \in 1..Len(frames) :
              Returning(frames[p]) => frames[p].best = frames[p].first)

\* a trial edit has scored exactly the best score through another sequence
\* than the kept one (42 -> 41 kept, then 42 -> 43 scoring the same)
C12_Witness ==
    /\ Running
    /\ Top.best # <<>>
    /\ Top.stack # <<>>
    /\ Top.stack # Top.best
    /\ Len(Top.stack) = Len(Top.best)
    /\ Score(Top.lvl, num) = Top.best_utility
    /\ Top.i >= 1

\* C13: a call of ModifyOptimizer::modify ends either with the empty record and
\* the object identical to the input, or with a non-empty record and the object
\* scoring strictly more than the input; so main's test `num == old` holds
\* exactly when the returned record is empty.
C13_UnchangedOrStrictlyBetter ==
    /\ \A p \in 1..Len(frames) :
           LET f == frames[p]
           IN  Returning(f) =>
                   \/ f.best = <<>> /\ num = f.obj0
                   \/ f.best # <<>> /\ Score(f.lvl, num) > Score(f.lvl, f.obj0)
    /\ mainpc = "check" =>
           /\ \/ change = <<>> /\ num = old
              \/ change # <<>> /\ Score(TopLevel, num) > Score(TopLevel, old)
           /\ (num = old) <=> (change = <<>>)

\* a call that edited the object in its trials has returned the empty record
\* and the input object
C13_Witness ==
    /\ mainpc = "check"
    /\ change = <<>>
    /\ num = old
    /\ hist[1].seen # {old}
    /\ optimizers[1].tries >= 2

\* a call has returned a non-empty record and a strictly better object
C13_WitnessBetter ==
    /\ mainpc = "check"
    /\ change # <<>>
    /\ Score(TopLevel, num) > Score(TopLevel, old)

ZeroBudget(L) == optimizers[L].tries = 0 \/ optimizers[L].depth = 0

\* C14: with tries = 0 or depth = 0, ModifyOptimizer::modify returns the empty
\* sequence, leaves the object unchanged and never calls the modifier's modify,
\* undo or redo (so even an empty edit aggregate is never asked to choose).
C14_ZeroBudgetNoOp ==
    /\ \A p \in 1..Len(frames) :
           LET f == frames[p]
           IN  ZeroBudget(f.lvl) =>
                   /\ Returning(f)
                   /\ f.best = <<>>
                   /\ f.stack = <<>>
                   /\ num = f.obj0
                   /\ f.nmodify = 0 /\ f.nundo = 0 /\ f.nredo = 0
    /\ (ZeroBudget(TopLevel) /\ mainpc = "check") => change = <<>> /\ num = old
    /\ (ZeroBudget(TopLevel) /\ mainpc = "panicked") => frames = <<>>

\* a call with depth = 0 and a positive tries has returned to main
C14_Witness ==
    /\ mainpc = "check"
    /\ optimizers[1].depth = 0
    /\ optimizers[1].tries > 0
    /\ modifier = <<>>
    /\ change = <<>>

\* a call with tries = 0 and a positive depth has returned to main
C14_WitnessTries ==
    /\ mainpc = "check"
    /\ optimizers[1].tries = 0
    /\ optimizers[1].depth > 0
    /\ change = <<>>

\* the object before and after the edit a record of the Vec describes
PreState(ch) == ch[2].old

PostState(ch) == ch[2].new

\* C15: every undo of ModifyOptimizer::modify and ModifyOptimizer::undo is
\* applied to the newest record not yet undone, with the object in that
\* record's post-edit state; every redo (final loop and ModifyOptimizer::redo,
\* in forward order) is applied with the object in the record's pre-edit state.
C15_LifoDiscipline ==
    /\ [][\A p \in Continuing :
              LET f == frames[p]
                  g == frames'[p]
              IN  /\ (f.lvl = 1 /\ g.nundo = f.nundo + 1) =>
                         /\ g.stack = SubSeq(f.stack, 1, Len(f.stack) - 1)
                         /\ num = PostState(f.stack[Len(f.stack)])
                         /\ num' = PreState(f.stack[Len(f.stack)])
                  /\ (f.lvl = 1 /\ g.nredo = f.nredo + 1) =>
                         /\ num = PreState(f.best[g.nredo])
                         /\ num' = PostState(f.best[g.nredo])]_vars
    /\ []((mainpc = "check" /\ TopLevel = 1) =>
              LET undos == UndoCalls(1, change, num)
                  redos == RedoCalls(1, change, old)
              IN  /\ Len(undos) = Len(change) /\ Len(redos) = Len(change)
                  /\ \A m \in 1..Len(change) :
                         /\ undos[m].action = change[Len(change) + 1 - m]
                         /\ undos[m].obj = PostState(undos[m].action)
                         /\ redos[m].action = change[m]
                         /\ redos[m].obj = PreState(redos[m].action))

\* the unwinding has undone the newer of two effective edits and is about to
\* undo the older one
C15_Witness ==
    /\ Running
    /\ Top.pc = "unwind"
    /\ Len(Top.stack) = 1
    /\ Top.j = 2
    /\ PreState(Top.stack[1]) # PostState(Top.stack[1])
    /\ num = PostState(Top.stack[1])
    /\ num # Top.obj0

\* the final loop has redone the first of two kept edits
C15_WitnessReplay ==
    /\ Running
    /\ Top.pc = "replay"
    /\ Len(Top.best) = 2
    /\ Top.k = 1
    /\ num = PreState(Top.best[2])

\* C16: every call of ModifyOptimizer::modify terminates, having called the
\* modifier's modify exactly tries * depth times, its undo exactly tries * depth
\* times and its redo once per record of the returned sequence, whatever the
\* members drawn and the scores observed.  A call returns whenever its edit
\* aggregate is not empty or its budget is zero; otherwise it ends in the panic
\* of Vec::modify.
C16_BoundedWork ==
    /\ [](\A p \in 1..Len(frames) :
              LET f == frames[p]
                  self == optimizers[f.lvl]
              IN  /\ f.nmodify <= self.tries * self.depth
                  /\ f.nundo <= f.nmodify
                  /\ f.nredo <= Len(f.best)
                  /\ Returning(f) =>
                         /\ f.nmodify = self.tries * self.depth
                         /\ f.nundo = self.tries * self.depth
                         /\ f.nredo = Len(f.best))
    /\ (mainpc = "modify") ~> (mainpc \in {"check", "panicked"})
    /\ (mainpc = "modify" /\ (modifier # <<>> \/ ZeroBudget(TopLevel)))
           ~> (mainpc = "check")

\* a call with the largest budget is about to return a record shorter than its
\* depth: tries * depth edits made and undone, fewer redone
C16_Witness ==
    /\ Running
    /\ Returning(Top)
    /\ optimizers[1].tries = MaxTries
    /\ optimizers[1].depth = MaxDepth
    /\ Top.nmodify = MaxTries * MaxDepth
    /\ Top.nundo = MaxTries * MaxDepth
    /\ Top.nredo = 1

\* C17: the trial stack is empty when an attempt starts and never holds more
\* than depth records; the record ModifyOptimizer::modify returns has between 0
\* and depth records and is a prefix of the edits of one attempt: it is always
\* the trial stack of the attempt that was running when it was taken, and the
\* stack of an attempt only grows until the attempt is unwound.
C17_StackBounds ==
    /\ [](\A p \in 1..Len(frames) :
              LET f == frames[p]
                  self == optimizers[f.lvl]
              IN  /\ Len(f.stack) <= self.depth
                  /\ Len(f.best) <= self.depth
                  /\ (f.pc \in {"trial", "call"}) => Len(f.stack) = f.j
                  /\ (f.pc = "replay") => f.stack = <<>>
                  /\ (f.pc = "trial" /\ f.j = 0) => f.stack = <<>>)
    /\ [](mainpc = "check" => Len(change) <= optimizers[TopLevel].depth)
    /\ [][\A p \in Continuing :
              LET f == frames[p]
                  g == frames'[p]
              IN  /\ g.best # f.best => g.best = g.stack /\ g.nmodify = f.nmodify + 1
                  /\ g.nmodify = f.nmodify + 1 =>
                         /\ g.i = f.i
                         /\ Len(g.stack) = Len(f.stack) + 1
                         /\ SubSeq(g.stack, 1, Len(f.stack)) = f.stack
                  /\ g.i # f.i => g.stack = <<>>]_vars

\* the second attempt of a call starts with an empty stack while the kept
\* sequence of the first attempt has as many records as depth allows
C17_Witness ==
    /\ Running
    /\ Top.pc = "trial"
    /\ Top.i = 1
    /\ Top.j = 0
    /\ Top.stack = <<>>
    /\ Len(Top.best) = MaxDepth

\* every record of the Vec held by the running call or returned to main
HeldRecords == VecRecords \cup {change[n] : n \in 1..Len(change)}

\* what a u8 edit by the member `self` of an object `o` must give
Clamped(self, o) ==
    IF self = "Inc" THEN (IF o = U8Max THEN U8Max ELSE o + 1)
    ELSE (IF o = 0 THEN 0 ELSE o - 1)

\* C18: Inc at 255 and Dec at 0 leave the u8 unchanged and return a record
\* with old = new; after any modify, undo and redo the engine issues the
\* object is within 0..255, nothing having overflowed or underflowed.
C18_ClampedInRange ==
    /\ num \in 0..U8Max
    /\ old \in 0..U8Max
    /\ mainpc = "vec_modified" =>
           LET self == modifier[hist[1].callee + 1]
               o == hist[1].before
           IN  ((self = "Inc" /\ o = U8Max) \/ (self = "Dec" /\ o = 0)) =>
                   /\ num = o
                   /\ change = <<<<hist[1].callee, NumberChange(o, o)>>>>
    /\ \A r \in HeldRecords :
           /\ PreState(r) \in 0..U8Max
           /\ PostState(r) \in 0..U8Max
           /\ TopLevel = 1 => PostState(r) = Clamped(modifier[Route(r) + 1], PreState(r))
    /\ \A p \in 1..Len(frames) : frames[p].seen \subseteq 0..U8Max

\* a trial at 255 has pushed the record of an Inc that changed nothing and the
\* unwinding is about to undo it
C18_Witness ==
    /\ Running
    /\ Top.pc = "unwind"
    /\ Top.stack # <<>>
    /\ num = U8Max
    /\ modifier[Route(Top.stack[Len(Top.stack)]) + 1] = "Inc"
    /\ PreState(Top.stack[Len(Top.stack)]) = U8Max
    /\ PostState(Top.stack[Len(Top.stack)]) = U8Max

\* the same at the lower end: a Dec at 0
C18_WitnessZero ==
    /\ Running
    /\ Top.stack # <<>>
    /\ num = 0
    /\ modifier[Route(Top.stack[Len(Top.stack)]) + 1] = "Dec"
    /\ PreState(Top.stack[Len(Top.stack)]) = 0

\* C19: throughout ModifyOptimizer::modify, best_utility never decreases, is
\* at least the score of the input object, and is the score of the input
\* object with the current best sequence redone on it in forward order;
\* undoing and popping the trial stack leaves best as it is.
C19_BestSoFar ==
    /\ [](\A p \in 1..Len(frames) :
              LET f == frames[p]
              IN  /\ f.best_utility >= Score(f.lvl, f.obj0)
                  /\ f.best_utility
                         = Score(f.lvl, OptimizerRedo(f.lvl, f.best, f.obj0)))
    /\ [][\A p \in Continuing :
              LET f == frames[p]
                  g == frames'[p]
              IN  /\ g.best_utility >= f.best_utility
                  /\ g.nundo = f.nundo + 1 =>
                         /\ g.best = f.best
                         /\ g.best_utility = f.best_utility]_vars

\* an attempt that found a better object has been unwound completely and the
\* kept sequence still has its two records
C19_Witness ==
    /\ Running
    /\ Top.i >= 1
    /\ Top.stack = <<>>
    /\ Len(Top.best) = 2
    /\ num = Top.obj0
    /\ Top.best_utility > Score(Top.lvl, Top.obj0)

====
